---------------------------- MODULE Spec2Model ----------------------------
(***************************************************************************)
(* A model of the dispatch and completion-tracking core of lithops:        *)
(*   - the master's range allocator      (entry_point.py, get_range)       *)
(*   - the partition planner             (calculate_executions)            *)
(*   - the fan-out scheduler of a pod    (callback_run_jobs and the worker *)
(*                                        run_job_k8s_rabbitmq)            *)
(*   - the client's wait engine          (wait.py, wait / _get_job_data)   *)
(* Each subsystem has its own variables and its own specification; the     *)
(* variables of the other subsystems stay at their idle values.            *)
(***************************************************************************)
EXTENDS Integers, Sequences, FiniteSets, TLC

(***************************************************************************)
(* Bounds of the model.                                                    *)
(***************************************************************************)
MaxCalls == 3
MaxChunk == 2
MaxRequests == 4
MaxSeqCalls == 10
MaxSeqChunk == 3
MaxSeqRequests == 5
MaxCPUs == 4
MaxFunctions == 9
MaxFanCPUs == 3
MaxFanCalls == 5
MaxPullCalls == 3
MaxPullChunk == 2
MaxPullRequests == 6
MaxFailures == 1
MaxMessages == 2
MaxListenCPUs == 2
MaxRepeats == 1
MaxRoots == 2
MaxFutures == 3

JobKeys == {"jobA", "jobB"}
Handlers == {"h1", "h2"}

VARIABLES
    \* ---- range allocator (master pod) ----
    JOB_INDEXES,    \* the module-level dict: job key -> cursor
    total_calls,    \* per job key, the total_calls its workers send
    chunksize,      \* per job key, the chunksize its workers send
    hpc,            \* per request handler thread, its position in get_range
    hkey,           \* per handler, the jobkey of the request it serves
    hstart,         \* per handler, the local range_start
    hend,           \* per handler, the local range_end
    hexh,           \* per handler, whether the cursor stood at total_calls on arrival
    nreq,           \* requests received so far
    responses       \* the responses sent, in the order they were returned

allocVars == <<JOB_INDEXES, total_calls, chunksize, hpc, hkey, hstart, hend,
               hexh, nreq, responses>>

VARIABLES
    \* ---- partition planner, applied to every pod of a cluster ----
    cluster_cpus,     \* num_cpus_cluster
    cluster_pods,     \* the pods' inclusive CPU ranges <<first, last>>, in order
    total_functions,  \* the number of calls of the job
    shares            \* per pod planned so far, <<pod_executions, base_executions>>

planVars == <<cluster_cpus, cluster_pods, total_functions, shares>>

VARIABLES
    \* ---- fan-out scheduler of one pod ----
    range_start,       \* global: first CPU index of the pod
    range_end,         \* global: last CPU index of the pod
    num_cpus_cluster,  \* global: CPUs of the whole cluster
    msg_total_calls,   \* payload['total_calls'] of the job message
    spc,               \* position of callback_run_jobs
    requested_cpus,    \* local of callback_run_jobs
    pod_cpus,          \* local of callback_run_jobs
    total_executions,  \* local of callback_run_jobs
    bases_executions,  \* local of callback_run_jobs
    num_processes,     \* local of callback_run_jobs
    loop_i,            \* the first wave's loop variable i
    bases,             \* the refill's loop variable bases
    execution_id,      \* local of callback_run_jobs
    sched_tmp,         \* the value the scheduler read for running_jobs.value += 1
    running_jobs,      \* the shared Value('i', 0)
    workers            \* the processes started, in order: job_index, state, the
                       \* value read for running_jobs.value -= 1

fanVars == <<range_start, range_end, num_cpus_cluster, msg_total_calls, spc,
             requested_cpus, pod_cpus, total_executions, bases_executions,
             num_processes, loop_i, bases, execution_id, sched_tmp, running_jobs,
             workers>>

VARIABLES
    \* ---- wait engine (client) ----
    future,            \* the Future objects by id: ready, done,
                       \* _call_status_ready, job_key, the child futures
                       \* (futures / _new_futures) and the retrievals dispatched
    fs,                \* the caller's list of futures, grown in place
    return_when,       \* argument of wait
    download_results,  \* argument of wait
    throw_except,      \* argument of wait
    fs_done,           \* local of wait: the partition computed on entry
    fs_not_done,       \* local of wait
    jobs,              \* local of wait: the job units, each with its futures
    monitors,          \* the job keys whose JobMonitor is alive
    wpc,               \* position of wait
    job_i,             \* the job unit the current pass is at
    npasses,           \* polling passes completed: 0, 1, or 2 for two or more
    ret                \* what wait returned

waitVars == <<future, fs, return_when, download_results, throw_except, fs_done,
              fs_not_done, jobs, monitors, wpc, job_i, npasses, ret>>

VARIABLES
    \* ---- pull workers (run_job_k8s), one process each ----
    wkpc,            \* per worker, its position in run_job_k8s
    activation,      \* per worker, os.environ['__LITHOPS_ACTIVATION_ID']
    call_ids_range,  \* per worker, the local call_ids_range (a text)
    hfor,            \* per request handler, the worker whose request it serves
    next_uuid,       \* the uuid4 values drawn so far
    nfail,           \* transport failures so far
    executed         \* the ranges handed to function_handler, in order, each
                     \* with the worker and the activation id it ran under

pullVars == <<wkpc, activation, call_ids_range, hfor, next_uuid, nfail, executed>>

VARIABLES
    \* ---- the pods of a cluster and the queue of a pod ----
    job_msg,     \* total_calls of the job message published to every pod
    pod_i,       \* the pod of the cluster whose handling is followed
    launched,    \* the job indices of the processes started by the pods before
    queue,       \* the messages waiting in the pod's queue
    listener,    \* whether start_consuming is still running
    caught       \* exceptions swallowed by callback_run_jobs so far

deployVars == <<job_msg, pod_i, launched, queue, listener, caught>>

VARIABLES
    \* ---- get_result (client) ----
    produce_output,  \* per future id, Future._produce_output
    result,          \* local of get_result: the results collected
    gpc              \* position of get_result

resultVars == <<produce_output, result, gpc>>

VARIABLES
    \* ---- the timeout timer of wait ----
    is_unix,   \* is_unix_system()
    timeout,   \* whether wait was given a timeout (not None)
    alarm,     \* the SIGALRM timer of the process: "off", "armed" or "fired"
    outcome    \* how control came back to the caller of wait, "running" before

timerVars == <<is_unix, timeout, alarm, outcome>>

VARIABLES
    \* ---- wait called again on the same list ----
    nrepeats   \* the calls of wait made on the list after the first

vars == <<allocVars, planVars, fanVars, waitVars, pullVars, deployVars, resultVars,
          timerVars, nrepeats>>

otherThanAlloc ==
    <<planVars, fanVars, waitVars, pullVars, deployVars, resultVars, timerVars,
      nrepeats>>
otherThanPlan ==
    <<allocVars, fanVars, waitVars, pullVars, deployVars, resultVars, timerVars,
      nrepeats>>
otherThanFan ==
    <<allocVars, planVars, waitVars, pullVars, deployVars, resultVars, timerVars,
      nrepeats>>
otherThanWait ==
    <<allocVars, planVars, fanVars, pullVars, deployVars, resultVars, timerVars,
      nrepeats>>
otherThanAllocPull ==
    <<planVars, fanVars, waitVars, deployVars, resultVars, timerVars, nrepeats>>
otherThanFanDeploy ==
    <<allocVars, planVars, waitVars, pullVars, resultVars, timerVars, nrepeats>>
otherThanResult ==
    <<allocVars, planVars, fanVars, waitVars, pullVars, deployVars, timerVars,
      nrepeats>>
otherThanWaitTimer ==
    <<allocVars, planVars, fanVars, pullVars, deployVars, resultVars, nrepeats>>
otherThanWaitRepeat ==
    <<allocVars, planVars, fanVars, pullVars, deployVars, resultVars, timerVars>>

(***************************************************************************)
(* Text of a response.  A string is a sequence of one-character strings.   *)
(***************************************************************************)
DigitChars == <<"0", "1", "2", "3", "4", "5", "6", "7", "8", "9">>

RECURSIVE IntToStr(_)
IntToStr(n) ==
    IF n < 0 THEN <<"-">> \o IntToStr(-n)
    ELSE IF n < 10 THEN <<DigitChars[n + 1]>>
    ELSE IntToStr(n \div 10) \o <<DigitChars[(n % 10) + 1]>>

DigitVal(c) == CHOOSE i \in 0..9 : DigitChars[i + 1] = c

RECURSIVE StrToInt(_)
StrToInt(s) ==
    IF Len(s) = 1 THEN DigitVal(s[1])
    ELSE 10 * StrToInt(SubSeq(s, 1, Len(s) - 1)) + DigitVal(s[Len(s)])

Sentinel == <<"-", "1">>

\* f'{range_start}-{range_end}'
FormatRange(s, e) == IntToStr(s) \o <<"-">> \o IntToStr(e)

\* map(int, call_ids_range.split('-')) for a text with one separator
ParseRange(text) ==
    LET d == CHOOSE i \in 1..Len(text) : text[i] = "-"
    IN  <<StrToInt(SubSeq(text, 1, d - 1)), StrToInt(SubSeq(text, d + 1, Len(text)))>>

Min(a, b) == IF a < b THEN a ELSE b

(***************************************************************************)
(* get_range: one Flask request handler thread per request.  The server is *)
(* started by proxy.run(), which serves requests in threads, and get_range *)
(* takes no lock: its statements interleave with those of other handlers.  *)
(***************************************************************************)
\* the cursor a request would read: 0 if jobkey not in JOB_INDEXES
Cursor(k) == IF k \in DOMAIN JOB_INDEXES THEN JOB_INDEXES[k] ELSE 0

\* a request for job key k arrives and is given to the idle handler h
Accept(h, k) ==
    /\ hpc[h] = "idle"
    /\ hpc' = [hpc EXCEPT ![h] = "read"]
    /\ hkey' = [hkey EXCEPT ![h] = k]
    /\ hexh' = [hexh EXCEPT ![h] = (Cursor(k) = total_calls[k])]
    /\ nreq' = nreq + 1
    /\ UNCHANGED <<JOB_INDEXES, total_calls, chunksize, hstart, hend, responses>>

Arrive(h, k) ==
    /\ Accept(h, k)
    /\ UNCHANGED otherThanAlloc

Request(h, k) ==
    /\ nreq < MaxRequests
    /\ Arrive(h, k)

\* range_start = 0 if jobkey not in JOB_INDEXES else JOB_INDEXES[jobkey]
ReadCursor(h) ==
    /\ hpc[h] = "read"
    /\ hstart' = [hstart EXCEPT ![h] = Cursor(hkey[h])]
    /\ hpc' = [hpc EXCEPT ![h] = "write"]
    /\ UNCHANGED <<JOB_INDEXES, total_calls, chunksize, hkey, hend, hexh, nreq,
                   responses>>
    /\ UNCHANGED otherThanAlloc

\* a faulty variant of RangeEnd: the range end is not capped at total_calls
RangeEndUncapped(start, chunk, total) == start + chunk

\* range_end = min(range_start + int(chunksize), int(total_calls))
RangeEnd(start, chunk, total) == Min(start + chunk, total)

\* the dict after JOB_INDEXES[jobkey] = range_end
StoreCursor(idx, k, v) ==
    [j \in DOMAIN idx \cup {k} |-> IF j = k THEN v ELSE idx[j]]

WriteCursor(h) ==
    /\ hpc[h] = "write"
    /\ LET e == RangeEnd(hstart[h], chunksize[hkey[h]], total_calls[hkey[h]])
       IN  /\ hend' = [hend EXCEPT ![h] = e]
           /\ JOB_INDEXES' = StoreCursor(JOB_INDEXES, hkey[h], e)
    /\ hpc' = [hpc EXCEPT ![h] = "reply"]
    /\ UNCHANGED <<total_calls, chunksize, hkey, hstart, hexh, nreq, responses>>
    /\ UNCHANGED otherThanAlloc

\* range = "-1" if range_start == int(total_calls) else f'{range_start}-{range_end}'
RangeText(start, end, total) ==
    IF start = total THEN Sentinel ELSE FormatRange(start, end)

\* line 57: return range
Respond(h) ==
    /\ hpc[h] = "reply"
    /\ responses' = Append(responses,
                           [key |-> hkey[h],
                            exh |-> hexh[h],
                            text |-> RangeText(hstart[h], hend[h],
                                               total_calls[hkey[h]])])
    /\ hpc' = [hpc EXCEPT ![h] = "idle"]
    /\ UNCHANGED <<JOB_INDEXES, total_calls, chunksize, hkey, hstart, hend, hexh,
                   nreq>>

Reply(h) ==
    /\ Respond(h)
    /\ UNCHANGED otherThanAlloc

AllocIdle ==
    /\ JOB_INDEXES = << >>
    /\ hpc = [h \in Handlers |-> "idle"]
    /\ hkey = [h \in Handlers |-> "jobA"]
    /\ hstart = [h \in Handlers |-> 0]
    /\ hend = [h \in Handlers |-> 0]
    /\ hexh = [h \in Handlers |-> FALSE]
    /\ nreq = 0
    /\ responses = << >>

PlanIdle ==
    /\ cluster_cpus = 1
    /\ cluster_pods = << <<0, 0>> >>
    /\ total_functions = 0
    /\ shares = << >>

FanIdle ==
    /\ range_start = 0
    /\ range_end = 0
    /\ num_cpus_cluster = 1
    /\ msg_total_calls = 0
    /\ spc = "listening"
    /\ requested_cpus = 0
    /\ pod_cpus = 0
    /\ total_executions = 0
    /\ bases_executions = 0
    /\ num_processes = 0
    /\ loop_i = 0
    /\ bases = 0
    /\ execution_id = 0
    /\ sched_tmp = 0
    /\ running_jobs = 0
    /\ workers = << >>

PullWorkers == {"w1", "w2"}

PullIdle ==
    /\ wkpc = [w \in PullWorkers |-> "off"]
    /\ activation = [w \in PullWorkers |-> 0]
    /\ call_ids_range = [w \in PullWorkers |-> << >>]
    /\ hfor = [h \in Handlers |-> "w1"]
    /\ next_uuid = 0
    /\ nfail = 0
    /\ executed = << >>

DeployIdle ==
    /\ job_msg = 0
    /\ pod_i = 0
    /\ launched = << >>
    /\ queue = << >>
    /\ listener = "subscribed"
    /\ caught = 0

ResultIdle ==
    /\ produce_output = << >>
    /\ result = << >>
    /\ gpc = "idle"

TimerIdle ==
    /\ is_unix = TRUE
    /\ timeout = FALSE
    /\ alarm = "off"
    /\ outcome = "running"

ALL_COMPLETED == 1
ANY_COMPLETED == 2
ALWAYS == 3

WaitIdle ==
    /\ future = << >>
    /\ fs = << >>
    /\ return_when = ALL_COMPLETED
    /\ download_results = FALSE
    /\ throw_except = TRUE
    /\ fs_done = << >>
    /\ fs_not_done = << >>
    /\ jobs = << >>
    /\ monitors = {}
    /\ wpc = "idle"
    /\ job_i = 0
    /\ npasses = 0
    /\ ret = [kind |-> "unset"]

\* the master has just started: JOB_INDEXES = {}
AllocInit ==
    /\ AllocIdle
    /\ PlanIdle
    /\ FanIdle
    /\ WaitIdle
    /\ PullIdle
    /\ DeployIdle
    /\ ResultIdle
    /\ TimerIdle
    /\ nrepeats = 0
    /\ total_calls \in [JobKeys -> 0..MaxCalls]
    /\ chunksize \in [JobKeys -> 1..MaxChunk]

AllocNext ==
    \/ \E h \in Handlers, k \in JobKeys : Request(h, k)
    \/ \E h \in Handlers : ReadCursor(h)
    \/ \E h \in Handlers : WriteCursor(h)
    \/ \E h \in Handlers : Reply(h)

\* the allocator as deployed: handler threads interleave
SpecAlloc == AllocInit /\ [][AllocNext]_vars

(***************************************************************************)
(* The allocator with its requests handled one at a time: a request is     *)
(* taken only when no other is being handled.                              *)
(***************************************************************************)
SerialRequest(h, k) ==
    /\ \A g \in Handlers : hpc[g] = "idle"
    /\ nreq < MaxSeqRequests
    /\ Arrive(h, k)

SeqInit ==
    /\ AllocIdle
    /\ PlanIdle
    /\ FanIdle
    /\ WaitIdle
    /\ PullIdle
    /\ DeployIdle
    /\ ResultIdle
    /\ TimerIdle
    /\ nrepeats = 0
    /\ \E t \in 0..MaxSeqCalls, c \in 1..MaxSeqChunk :
          /\ total_calls = [k \in JobKeys |-> t]
          /\ chunksize = [k \in JobKeys |-> c]

SeqNext ==
    \/ \E k \in JobKeys : SerialRequest("h1", k)
    \/ ReadCursor("h1")
    \/ WriteCursor("h1")
    \/ Reply("h1")

SpecSeq == SeqInit /\ [][SeqNext]_vars

(***************************************************************************)
(* The pull workers: run_job_k8s in one process per worker, all pulling    *)
(* the ranges of one job from the master's get_range.  requests.get may    *)
(* raise before the request reached the master, or after the master        *)
(* handled it, the response being lost; the worker then sleeps and asks    *)
(* again.  uuid4 is modelled as drawing a value never drawn before.        *)
(***************************************************************************)
PullJob == "jobA"

\* line 91: chunksize = worker_processes if worker_processes > chunksize else chunksize
OptimizeChunksize(worker_processes, chunk) ==
    IF worker_processes > chunk THEN worker_processes ELSE chunk

\* the call ids of call_ids[start:end]
SliceIds(start, end) == start..(end - 1)

\* lines 80-98: the activation id is set and the payload read
RunJobStart(w) ==
    /\ wkpc[w] = "start"
    /\ activation' = [activation EXCEPT ![w] = next_uuid + 1]
    /\ next_uuid' = next_uuid + 1
    /\ wkpc' = [wkpc EXCEPT ![w] = "request"]
    /\ UNCHANGED <<call_ids_range, hfor, nfail, executed>>
    /\ UNCHANGED allocVars
    /\ UNCHANGED otherThanAllocPull

\* line 106: the request reaches the master and is given to the idle handler h
PullSend(w, h) ==
    /\ wkpc[w] = "request"
    /\ nreq < MaxPullRequests
    /\ Accept(h, PullJob)
    /\ hfor' = [hfor EXCEPT ![h] = w]
    /\ wkpc' = [wkpc EXCEPT ![w] = "waiting"]
    /\ call_ids_range' = [call_ids_range EXCEPT ![w] = << >>]
    /\ UNCHANGED <<activation, next_uuid, nfail, executed>>
    /\ UNCHANGED otherThanAllocPull

\* lines 106-109: requests.get raises before the master saw the request
PullSendFails(w) ==
    /\ wkpc[w] = "request"
    /\ nfail < MaxFailures
    /\ nfail' = nfail + 1
    /\ UNCHANGED <<wkpc, activation, call_ids_range, hfor, next_uuid, executed>>
    /\ UNCHANGED allocVars
    /\ UNCHANGED otherThanAllocPull

\* lines 49 and 50-51 of the handler serving a worker
PullRead(h) ==
    /\ wkpc[hfor[h]] = "waiting"
    /\ ReadCursor(h)

PullWrite(h) ==
    /\ wkpc[hfor[h]] = "waiting"
    /\ WriteCursor(h)

\* line 57 and line 107: the handler returns the text and the worker reads it
PullDeliver(h) ==
    /\ wkpc[hfor[h]] = "waiting"
    /\ Respond(h)
    /\ call_ids_range' = [call_ids_range EXCEPT ![hfor[h]] =
                              RangeText(hstart[h], hend[h], total_calls[hkey[h]])]
    /\ wkpc' = [wkpc EXCEPT ![hfor[h]] = "got"]
    /\ UNCHANGED <<activation, hfor, next_uuid, nfail, executed>>
    /\ UNCHANGED otherThanAllocPull

\* line 57 and lines 108-109: the handler returns the text, the response is
\* lost and requests.get raises
PullResponseLost(h) ==
    /\ wkpc[hfor[h]] = "waiting"
    /\ nfail < MaxFailures
    /\ Respond(h)
    /\ nfail' = nfail + 1
    /\ wkpc' = [wkpc EXCEPT ![hfor[h]] = "request"]
    /\ UNCHANGED <<activation, call_ids_range, hfor, next_uuid, executed>>
    /\ UNCHANGED otherThanAllocPull

\* lines 111-120: the sentinel ends the loop; a range is parsed and its call
\* ids are handed to function_handler
PullHandle(w) ==
    /\ wkpc[w] = "got"
    /\ IF call_ids_range[w] = Sentinel
       THEN /\ wkpc' = [wkpc EXCEPT ![w] = "finished"]
            /\ UNCHANGED executed
       ELSE /\ executed' = Append(executed,
                                  [worker |-> w,
                                   ids |-> SliceIds(ParseRange(call_ids_range[w])[1],
                                                    ParseRange(call_ids_range[w])[2]),
                                   act |-> activation[w]])
            /\ wkpc' = [wkpc EXCEPT ![w] = "request"]
    /\ UNCHANGED <<activation, call_ids_range, hfor, next_uuid, nfail>>
    /\ UNCHANGED allocVars
    /\ UNCHANGED otherThanAllocPull

\* one or more workers are started on a job of total_calls > 0
PullInit ==
    /\ AllocIdle
    /\ PlanIdle
    /\ FanIdle
    /\ WaitIdle
    /\ DeployIdle
    /\ ResultIdle
    /\ TimerIdle
    /\ nrepeats = 0
    /\ \E t \in 1..MaxPullCalls, wp \in 1..MaxPullChunk, c \in 1..MaxPullChunk :
          /\ total_calls = [k \in JobKeys |-> t]
          /\ chunksize = [k \in JobKeys |-> OptimizeChunksize(wp, c)]
    /\ \E ws \in SUBSET PullWorkers :
          /\ ws # {}
          /\ wkpc = [w \in PullWorkers |-> IF w \in ws THEN "start" ELSE "off"]
    /\ activation = [w \in PullWorkers |-> 0]
    /\ call_ids_range = [w \in PullWorkers |-> << >>]
    /\ hfor = [h \in Handlers |-> "w1"]
    /\ next_uuid = 0
    /\ nfail = 0
    /\ executed = << >>

PullNext ==
    \/ \E w \in PullWorkers : RunJobStart(w)
    \/ \E w \in PullWorkers, h \in Handlers : PullSend(w, h)
    \/ \E w \in PullWorkers : PullSendFails(w)
    \/ \E h \in Handlers : PullRead(h)
    \/ \E h \in Handlers : PullWrite(h)
    \/ \E h \in Handlers : PullDeliver(h)
    \/ \E h \in Handlers : PullResponseLost(h)
    \/ \E w \in PullWorkers : PullHandle(w)

SpecPull == PullInit /\ [][PullNext]_vars

(***************************************************************************)
(* The partition planner, calculate_executions, applied to each pod of a   *)
(* cluster whose CPU ranges are contiguous, disjoint and cover             *)
(* 0 .. num_cpus_cluster - 1.                                              *)
(***************************************************************************)
\* a faulty variant of CalculateExecutions: the pod straddling the remainder is not
\* told apart and takes a full block like the pods before it
CalculateExecutionsNoStraddle(num_cpus, n_pod_cpus, range_ids_pod, total) ==
    LET base_executions == total \div num_cpus
        remaining_executions == total % num_cpus
    IN  IF remaining_executions > range_ids_pod[1]
        THEN <<n_pod_cpus * base_executions + n_pod_cpus, base_executions>>
        ELSE <<n_pod_cpus * base_executions, base_executions>>

CalculateExecutions(num_cpus, n_pod_cpus, range_ids_pod, total) ==
    LET base_executions == total \div num_cpus
        remaining_executions == total % num_cpus
        pod_executions == n_pod_cpus * base_executions
    IN  IF range_ids_pod[1] <= remaining_executions
           /\ remaining_executions <= range_ids_pod[2]
        THEN <<pod_executions + (remaining_executions - range_ids_pod[1]),
               base_executions>>
        ELSE IF remaining_executions > range_ids_pod[1]
        THEN <<pod_executions + n_pod_cpus, base_executions>>
        ELSE <<pod_executions, base_executions>>

\* the pods of a cluster of n CPUs cut before the CPU indices of cuts
PodsOf(n, cuts) ==
    LET firsts == {0} \cup cuts
        LastOf(f) == IF \E g \in firsts : g > f
                     THEN (CHOOSE g \in firsts :
                               g > f /\ \A x \in firsts : x > f => g <= x) - 1
                     ELSE n - 1
        Rank(f) == Cardinality({g \in firsts : g <= f})
    IN  [i \in 1..Cardinality(firsts) |->
             LET f == CHOOSE g \in firsts : Rank(g) = i IN <<f, LastOf(f)>>]

ValidCluster(n, pods) ==
    /\ Len(pods) >= 1
    /\ pods[1][1] = 0
    /\ pods[Len(pods)][2] = n - 1
    /\ \A i \in 1..Len(pods) : pods[i][1] <= pods[i][2]
    /\ \A i \in 1..(Len(pods) - 1) : pods[i + 1][1] = pods[i][2] + 1

\* plan the share of the next pod, with pod_cpus = range_end - range_start + 1
PlanPod ==
    /\ Len(shares) < Len(cluster_pods)
    /\ LET r == cluster_pods[Len(shares) + 1]
       IN  shares' = Append(shares,
                            CalculateExecutions(cluster_cpus, r[2] - r[1] + 1, r,
                                                total_functions))
    /\ UNCHANGED <<cluster_cpus, cluster_pods, total_functions>>
    /\ UNCHANGED otherThanPlan

PlanInit ==
    /\ AllocIdle
    /\ FanIdle
    /\ WaitIdle
    /\ PullIdle
    /\ DeployIdle
    /\ ResultIdle
    /\ TimerIdle
    /\ nrepeats = 0
    /\ total_calls = [k \in JobKeys |-> 0]
    /\ chunksize = [k \in JobKeys |-> 1]
    /\ cluster_cpus \in 1..MaxCPUs
    /\ \E cuts \in SUBSET (1..(cluster_cpus - 1)) :
           cluster_pods = PodsOf(cluster_cpus, cuts)
    /\ total_functions \in 0..MaxFunctions
    /\ shares = << >>

PlanNext == PlanPod

SpecPlan == PlanInit /\ [][PlanNext]_vars

(***************************************************************************)
(* The fan-out scheduler of one pod: callback_run_jobs handling one job    *)
(* message, and the worker processes run_job_k8s_rabbitmq it starts.       *)
(* running_jobs is a multiprocessing.Value: each read and each write of    *)
(* .value is atomic, but "+= 1" and "-= 1" are a read followed by a write. *)
(***************************************************************************)
\* Process(target=run_job_k8s_rabbitmq, args=(payload, job_index, running_jobs)).start()
StartProcess(ws, job_index) ==
    Append(ws, [job_index |-> job_index, state |-> "run", tmp |-> 0])

\* a faulty variant of RequestedCpus: the pod's CPUs are not clipped to total_calls
RequestedCpusUnclipped(total, first, last) == last - first + 1

\* lines 169-173, for total_calls > range_start
RequestedCpus(total, first, last) ==
    IF last > total - 1 THEN total - first ELSE last - first + 1

\* lines 160-186: the message with total_calls = t is decoded and the pod's
\* share computed
HandleMsg(t) ==
    /\ spc = "listening"
    /\ msg_total_calls' = t
    /\ IF msg_total_calls' > range_start
       THEN LET req == RequestedCpus(msg_total_calls', range_start, range_end)
                cpus == range_end - range_start + 1
                plan == CalculateExecutions(num_cpus_cluster, cpus,
                                            <<range_start, range_end>>,
                                            msg_total_calls')
            IN  /\ requested_cpus' = req
                /\ pod_cpus' = cpus
                /\ total_executions' = plan[1]
                /\ bases_executions' = plan[2]
                /\ num_processes' = IF plan[1] = req THEN req ELSE cpus
                /\ spc' = "first_wave"
       ELSE \* no more executions to do to this pod: return
            /\ spc' = "done"
            /\ UNCHANGED <<requested_cpus, pod_cpus, total_executions,
                           bases_executions, num_processes>>
    /\ running_jobs' = 0
    /\ loop_i' = 0
    /\ UNCHANGED <<range_start, range_end, num_cpus_cluster, bases, execution_id,
                   sched_tmp, workers>>

ReceiveMsg(t) ==
    /\ HandleMsg(t)
    /\ UNCHANGED otherThanFan

Receive == \E t \in 0..MaxFanCalls : ReceiveMsg(t)

\* line 188, the read of running_jobs.value += 1
FirstWaveRead ==
    /\ spc = "first_wave"
    /\ loop_i < num_processes
    /\ sched_tmp' = running_jobs
    /\ spc' = "first_wave_write"
    /\ UNCHANGED <<range_start, range_end, num_cpus_cluster, msg_total_calls,
                   requested_cpus, pod_cpus, total_executions, bases_executions,
                   num_processes, loop_i, bases, execution_id, running_jobs,
                   workers>>
    /\ UNCHANGED otherThanFan

\* line 188, the write of running_jobs.value += 1, and line 189
FirstWaveStart ==
    /\ spc = "first_wave_write"
    /\ running_jobs' = sched_tmp + 1
    /\ workers' = StartProcess(workers, range_start + loop_i)
    /\ loop_i' = loop_i + 1
    /\ spc' = "first_wave"
    /\ UNCHANGED <<range_start, range_end, num_cpus_cluster, msg_total_calls,
                   requested_cpus, pod_cpus, total_executions, bases_executions,
                   num_processes, bases, execution_id, sched_tmp>>
    /\ UNCHANGED otherThanFan

\* lines 192-196: after the first wave, are there more stacks to run
FirstWaveEnd ==
    /\ spc = "first_wave"
    /\ loop_i >= num_processes
    /\ IF total_executions # requested_cpus
       THEN /\ total_executions' = total_executions - pod_cpus
            /\ bases' = 0
            /\ execution_id' = 0
            /\ spc' = "refill"
       ELSE /\ spc' = "done"
            /\ UNCHANGED <<total_executions, bases, execution_id>>
    /\ UNCHANGED <<range_start, range_end, num_cpus_cluster, msg_total_calls,
                   requested_cpus, pod_cpus, bases_executions, num_processes,
                   loop_i, sched_tmp, running_jobs, workers>>
    /\ UNCHANGED otherThanFan

\* a faulty variant of RefillIndex: the rounds are counted from 0
RefillIndexFromZero(ncpus, round, first, slot) == (ncpus * round) + first + slot

\* the index the refill passes to the process it starts (line 200)
RefillIndex(ncpus, round, first, slot) == (ncpus * (round + 1)) + first + slot

\* lines 197-198: the while condition holds and a slot is free.  When no slot
\* is free the scheduler tests again: a step that changes nothing.
RefillSlotFree ==
    /\ spc = "refill"
    /\ bases < bases_executions + 2
    /\ execution_id < pod_cpus /\ total_executions # 0
    /\ running_jobs < pod_cpus
    /\ spc' = "refill_read"
    /\ UNCHANGED <<range_start, range_end, num_cpus_cluster, msg_total_calls,
                   requested_cpus, pod_cpus, total_executions, bases_executions,
                   num_processes, loop_i, bases, execution_id, sched_tmp,
                   running_jobs, workers>>
    /\ UNCHANGED otherThanFan

\* line 199, the read of running_jobs.value += 1
RefillRead ==
    /\ spc = "refill_read"
    /\ sched_tmp' = running_jobs
    /\ spc' = "refill_write"
    /\ UNCHANGED <<range_start, range_end, num_cpus_cluster, msg_total_calls,
                   requested_cpus, pod_cpus, total_executions, bases_executions,
                   num_processes, loop_i, bases, execution_id, running_jobs,
                   workers>>
    /\ UNCHANGED otherThanFan

\* line 199, the write of running_jobs.value += 1, and lines 200-203
RefillStart ==
    /\ spc = "refill_write"
    /\ running_jobs' = sched_tmp + 1
    /\ workers' = StartProcess(workers,
                               RefillIndex(num_cpus_cluster, bases, range_start,
                                           execution_id))
    /\ execution_id' = execution_id + 1
    /\ total_executions' = total_executions - 1
    /\ spc' = "refill"
    /\ UNCHANGED <<range_start, range_end, num_cpus_cluster, msg_total_calls,
                   requested_cpus, pod_cpus, bases_executions, num_processes,
                   loop_i, bases, sched_tmp>>
    /\ UNCHANGED otherThanFan

\* lines 195-197: the while loop of one round ends and the for loop goes on
RefillNextRound ==
    /\ spc = "refill"
    /\ bases < bases_executions + 2
    /\ ~(execution_id < pod_cpus /\ total_executions # 0)
    /\ bases' = bases + 1
    /\ execution_id' = 0
    /\ UNCHANGED <<range_start, range_end, num_cpus_cluster, msg_total_calls, spc,
                   requested_cpus, pod_cpus, total_executions, bases_executions,
                   num_processes, loop_i, sched_tmp, running_jobs, workers>>
    /\ UNCHANGED otherThanFan

\* line 205: the for loop is over
RefillEnd ==
    /\ spc = "refill"
    /\ bases >= bases_executions + 2
    /\ spc' = "done"
    /\ UNCHANGED <<range_start, range_end, num_cpus_cluster, msg_total_calls,
                   requested_cpus, pod_cpus, total_executions, bases_executions,
                   num_processes, loop_i, bases, execution_id, sched_tmp,
                   running_jobs, workers>>
    /\ UNCHANGED otherThanFan

\* run_job_k8s_rabbitmq, lines 131-135: the process picks its call (an
\* IndexError ends it when job_index is no index of call_ids), runs
\* function_handler and reads running_jobs.value for "-= 1"
WorkerCallDone(w) ==
    /\ w \in 1..Len(workers)
    /\ workers[w].state = "run"
    /\ workers' = [workers EXCEPT ![w] =
                      IF workers[w].job_index >= msg_total_calls
                      THEN [@ EXCEPT !.state = "crashed"]
                      ELSE [@ EXCEPT !.state = "dec", !.tmp = running_jobs]]
    /\ UNCHANGED <<range_start, range_end, num_cpus_cluster, msg_total_calls, spc,
                   requested_cpus, pod_cpus, total_executions, bases_executions,
                   num_processes, loop_i, bases, execution_id, sched_tmp,
                   running_jobs>>
    /\ UNCHANGED otherThanFan

\* a faulty variant of Decremented: the value read is written back
NotDecremented(v) == v

\* the value written by running_jobs.value -= 1
Decremented(v) == v - 1

\* line 135, the write of running_jobs.value -= 1; the process ends
WorkerDecrement(w) ==
    /\ w \in 1..Len(workers)
    /\ workers[w].state = "dec"
    /\ running_jobs' = Decremented(workers[w].tmp)
    /\ workers' = [workers EXCEPT ![w] = [@ EXCEPT !.state = "finished", !.tmp = 0]]
    /\ UNCHANGED <<range_start, range_end, num_cpus_cluster, msg_total_calls, spc,
                   requested_cpus, pod_cpus, total_executions, bases_executions,
                   num_processes, loop_i, bases, execution_id, sched_tmp>>
    /\ UNCHANGED otherThanFan

\* start_rabbitmq_listening, lines 217-219: the pod knows its CPU range and
\* waits for a job message
FanInit ==
    /\ AllocIdle
    /\ total_calls = [k \in JobKeys |-> 0]
    /\ chunksize = [k \in JobKeys |-> 1]
    /\ PlanIdle
    /\ WaitIdle
    /\ PullIdle
    /\ DeployIdle
    /\ ResultIdle
    /\ TimerIdle
    /\ nrepeats = 0
    /\ num_cpus_cluster \in 1..MaxFanCPUs
    /\ range_start \in 0..(num_cpus_cluster - 1)
    /\ range_end \in range_start..(num_cpus_cluster - 1)
    /\ msg_total_calls = 0
    /\ spc = "listening"
    /\ requested_cpus = 0
    /\ pod_cpus = 0
    /\ total_executions = 0
    /\ bases_executions = 0
    /\ num_processes = 0
    /\ loop_i = 0
    /\ bases = 0
    /\ execution_id = 0
    /\ sched_tmp = 0
    /\ running_jobs = 0
    /\ workers = << >>

FanNext ==
    \/ Receive
    \/ FirstWaveRead
    \/ FirstWaveStart
    \/ FirstWaveEnd
    \/ RefillSlotFree
    \/ RefillRead
    \/ RefillStart
    \/ RefillNextRound
    \/ RefillEnd
    \/ \E w \in 1..Len(workers) : WorkerCallDone(w)
    \/ \E w \in 1..Len(workers) : WorkerDecrement(w)

SpecFanout == FanInit /\ [][FanNext]_vars

\* callback_run_jobs runs on while it can, and so do the processes it started
SchedulerStep ==
    \/ Receive
    \/ FirstWaveRead
    \/ FirstWaveStart
    \/ FirstWaveEnd
    \/ RefillSlotFree
    \/ RefillRead
    \/ RefillStart
    \/ RefillNextRound
    \/ RefillEnd

WorkerStep ==
    \/ \E w \in 1..Len(workers) : WorkerCallDone(w)
    \/ \E w \in 1..Len(workers) : WorkerDecrement(w)

SpecFanoutFair ==
    /\ FanInit
    /\ [][FanNext]_vars
    /\ WF_vars(SchedulerStep)
    /\ WF_vars(WorkerStep)

(***************************************************************************)
(* One job message delivered to every pod of a cluster.  The pods do not   *)
(* share state: each handles the message with its own CPU range and its    *)
(* own counter, so their handlings are followed one pod after the other.   *)
(***************************************************************************)
JobIndexes(ws) == [i \in 1..Len(ws) |-> ws[i].job_index]

\* the pod followed receives the job message
ClusterReceive ==
    /\ pod_i <= Len(cluster_pods)
    /\ ReceiveMsg(job_msg)

\* the pod followed has handled the message and its processes have ended:
\* the next pod, started with its own range (lines 217-219), is followed
NextPod ==
    /\ pod_i <= Len(cluster_pods)
    /\ spc = "done"
    /\ \A w \in 1..Len(workers) : workers[w].state \in {"finished", "crashed"}
    /\ launched' = launched \o JobIndexes(workers)
    /\ pod_i' = pod_i + 1
    /\ workers' = << >>
    /\ IF pod_i < Len(cluster_pods)
       THEN /\ range_start' = cluster_pods[pod_i + 1][1]
            /\ range_end' = cluster_pods[pod_i + 1][2]
            /\ spc' = "listening"
       ELSE UNCHANGED <<range_start, range_end, spc>>
    /\ requested_cpus' = 0
    /\ pod_cpus' = 0
    /\ total_executions' = 0
    /\ bases_executions' = 0
    /\ num_processes' = 0
    /\ loop_i' = 0
    /\ bases' = 0
    /\ execution_id' = 0
    /\ sched_tmp' = 0
    /\ running_jobs' = 0
    /\ UNCHANGED <<num_cpus_cluster, msg_total_calls>>
    /\ UNCHANGED <<job_msg, queue, listener, caught>>
    /\ UNCHANGED otherThanFanDeploy

ClusterInit ==
    /\ AllocIdle
    /\ total_calls = [k \in JobKeys |-> 0]
    /\ chunksize = [k \in JobKeys |-> 1]
    /\ WaitIdle
    /\ PullIdle
    /\ ResultIdle
    /\ TimerIdle
    /\ nrepeats = 0
    /\ cluster_cpus \in 1..MaxFanCPUs
    /\ \E cuts \in SUBSET (1..(cluster_cpus - 1)) :
           cluster_pods = PodsOf(cluster_cpus, cuts)
    /\ total_functions = 0
    /\ shares = << >>
    /\ job_msg \in 0..MaxFanCalls
    /\ pod_i = 1
    /\ launched = << >>
    /\ queue = << >>
    /\ listener = "subscribed"
    /\ caught = 0
    /\ num_cpus_cluster = cluster_cpus
    /\ range_start = cluster_pods[1][1]
    /\ range_end = cluster_pods[1][2]
    /\ msg_total_calls = 0
    /\ spc = "listening"
    /\ requested_cpus = 0
    /\ pod_cpus = 0
    /\ total_executions = 0
    /\ bases_executions = 0
    /\ num_processes = 0
    /\ loop_i = 0
    /\ bases = 0
    /\ execution_id = 0
    /\ sched_tmp = 0
    /\ running_jobs = 0
    /\ workers = << >>

ClusterNext ==
    \/ ClusterReceive
    \/ FirstWaveRead
    \/ FirstWaveStart
    \/ FirstWaveEnd
    \/ RefillSlotFree
    \/ RefillRead
    \/ RefillStart
    \/ RefillNextRound
    \/ RefillEnd
    \/ \E w \in 1..Len(workers) : WorkerCallDone(w)
    \/ \E w \in 1..Len(workers) : WorkerDecrement(w)
    \/ NextPod

SpecCluster == ClusterInit /\ [][ClusterNext]_vars

(***************************************************************************)
(* The consumer of one pod: start_consuming delivers the messages of the   *)
(* pod's queue to callback_run_jobs one after the other, each acknowledged *)
(* on delivery (auto_ack=True).  A body may be anything published to the   *)
(* exchange: a job payload, or a body that json.loads or                   *)
(* payload['total_calls'] rejects.  Process(...).start() may raise.        *)
(***************************************************************************)
Bodies ==
    {[ok |-> FALSE, total |-> 0]} \cup {[ok |-> TRUE, total |-> t] : t \in 0..MaxFanCalls}

QueuesOf(n) == UNION {[1..m -> Bodies] : m \in 1..n}

\* lines 158-186: a job payload is delivered and decoded
ListenDeliver ==
    /\ listener = "subscribed"
    /\ queue # << >>
    /\ Head(queue).ok
    /\ HandleMsg(Head(queue).total)
    /\ queue' = Tail(queue)
    /\ UNCHANGED <<job_msg, pod_i, launched, listener, caught>>
    /\ UNCHANGED otherThanFanDeploy

\* lines 160-162 stand before the try: the exception of json.loads or of
\* payload['total_calls'] leaves callback_run_jobs and start_consuming
ListenMalformed ==
    /\ listener = "subscribed"
    /\ spc = "listening"
    /\ queue # << >>
    /\ ~Head(queue).ok
    /\ queue' = Tail(queue)
    /\ listener' = "dead"
    /\ spc' = "raised"
    /\ UNCHANGED <<range_start, range_end, num_cpus_cluster, msg_total_calls,
                   requested_cpus, pod_cpus, total_executions, bases_executions,
                   num_processes, loop_i, bases, execution_id, sched_tmp,
                   running_jobs, workers>>
    /\ UNCHANGED <<job_msg, pod_i, launched, caught>>
    /\ UNCHANGED otherThanFanDeploy

\* lines 188-189 or 199-200: the counter is incremented, Process(...).start()
\* raises, and lines 206-208 swallow the exception: the handler returns
StartFails ==
    /\ spc \in {"first_wave_write", "refill_write"}
    /\ running_jobs' = sched_tmp + 1
    /\ spc' = "done"
    /\ caught' = caught + 1
    /\ UNCHANGED <<range_start, range_end, num_cpus_cluster, msg_total_calls,
                   requested_cpus, pod_cpus, total_executions, bases_executions,
                   num_processes, loop_i, bases, execution_id, sched_tmp, workers>>
    /\ UNCHANGED <<job_msg, pod_i, launched, queue, listener>>
    /\ UNCHANGED otherThanFanDeploy

\* callback_run_jobs has returned and start_consuming waits for the next
\* message; the processes started go on with the counter of their message
HandlerReturns ==
    /\ spc = "done"
    /\ spc' = "listening"
    /\ workers' = << >>
    /\ requested_cpus' = 0
    /\ pod_cpus' = 0
    /\ total_executions' = 0
    /\ bases_executions' = 0
    /\ num_processes' = 0
    /\ loop_i' = 0
    /\ bases' = 0
    /\ execution_id' = 0
    /\ sched_tmp' = 0
    /\ running_jobs' = 0
    /\ UNCHANGED <<range_start, range_end, num_cpus_cluster, msg_total_calls>>
    /\ UNCHANGED deployVars
    /\ UNCHANGED otherThanFanDeploy

ListenInit ==
    /\ AllocIdle
    /\ total_calls = [k \in JobKeys |-> 0]
    /\ chunksize = [k \in JobKeys |-> 1]
    /\ PlanIdle
    /\ WaitIdle
    /\ PullIdle
    /\ ResultIdle
    /\ TimerIdle
    /\ nrepeats = 0
    /\ job_msg = 0
    /\ pod_i = 0
    /\ launched = << >>
    /\ queue \in QueuesOf(MaxMessages)
    /\ listener = "subscribed"
    /\ caught = 0
    /\ num_cpus_cluster \in 1..MaxListenCPUs
    /\ range_start \in 0..(num_cpus_cluster - 1)
    /\ range_end \in range_start..(num_cpus_cluster - 1)
    /\ msg_total_calls = 0
    /\ spc = "listening"
    /\ requested_cpus = 0
    /\ pod_cpus = 0
    /\ total_executions = 0
    /\ bases_executions = 0
    /\ num_processes = 0
    /\ loop_i = 0
    /\ bases = 0
    /\ execution_id = 0
    /\ sched_tmp = 0
    /\ running_jobs = 0
    /\ workers = << >>

ListenNext ==
    \/ ListenDeliver
    \/ ListenMalformed
    \/ FirstWaveRead
    \/ FirstWaveStart
    \/ FirstWaveEnd
    \/ RefillSlotFree
    \/ RefillRead
    \/ RefillStart
    \/ RefillNextRound
    \/ RefillEnd
    \/ StartFails
    \/ HandlerReturns
    \/ \E w \in 1..Len(workers) : WorkerCallDone(w)
    \/ \E w \in 1..Len(workers) : WorkerDecrement(w)

SpecListen == ListenInit /\ [][ListenNext]_vars

(***************************************************************************)
(* The wait engine: wait() and _get_job_data() of wait.py.  The Future     *)
(* class and the JobMonitor are collaborators outside these files; their   *)
(* effect on a future is modelled from the specification's data model:     *)
(* status retrieval makes a future ready, result retrieval makes it done,  *)
(* a failed call is raised under throw_except and otherwise captured with  *)
(* the future resolved, and a retrieval may reveal child futures.          *)
(***************************************************************************)
ChildJobKey == "jobC"

NewFuture(key, csr, rdy, dn) ==
    [ready |-> rdy, done |-> dn, call_status_ready |-> csr, job_key |-> key,
     kids |-> << >>, fetches |-> 0]

\* the readiness predicate: f.done if download_results else f.ready or f.done
Satisfies(f, dl) == IF dl THEN f.done ELSE (f.ready \/ f.done)

Pred(id) == Satisfies(future[id], download_results)

\* [f for f in fs if <predicate>] and [f for f in fs if not <predicate>]
DoneOf(list) == SelectSeq(list, LAMBDA id : Pred(id))
NotDoneOf(list) == SelectSeq(list, LAMBDA id : ~Pred(id))

\* a faulty variant of AllDone: any() where all() is meant
AllDoneAsAny(list) == \E i \in 1..Len(list) : Pred(list[i])

\* _all_done(fs, download_results)
AllDone(list) == \A i \in 1..Len(list) : Pred(list[i])

\* a faulty variant of AnyDone: all() where any() is meant
AnyDoneAsAll(list) == \A i \in 1..Len(list) : Pred(list[i])

\* _any_done(fs, download_results)
AnyDone(list) == \E i \in 1..Len(list) : Pred(list[i])

\* the job units of _create_jobs_from_futures, for the job keys in the order
\* given (present_jobs is a set: its iteration order is not fixed)
JobsFrom(list, keys) ==
    [i \in 1..Len(keys) |->
        [job_key |-> keys[i],
         futures |-> SelectSeq(list, LAMBDA id : future[id].job_key = keys[i])]]

PresentJobs(list) == {future[list[i]].job_key : i \in 1..Len(list)}

Orderings(S) ==
    {q \in [1..Cardinality(S) -> S] : \A i, j \in 1..Cardinality(S) :
                                         i # j => q[i] # q[j]}

\* lines 147-162: the partition returned, recomputed over the grown list
Partition(list) == [kind |-> "pair", done |-> DoneOf(list), notdone |-> NotDoneOf(list)]

\* a faulty variant of EarlyReturn: wait does not return early when every future
\* already satisfies the predicate on entry
NoEarlyReturn(notdone) == FALSE

\* line 78: if not fs_not_done: return fs_done, fs_not_done
EarlyReturn(notdone) == notdone = << >>

\* wait(), lines 58-102: the entry of the call
WaitCall ==
    /\ wpc = "start"
    /\ IF fs = << >>
       THEN \* line 58: if not fs: return
            /\ ret' = [kind |-> "none"]
            /\ wpc' = "returned"
            /\ UNCHANGED <<fs_done, fs_not_done, jobs, monitors>>
       ELSE /\ fs_done' = DoneOf(fs)
            /\ fs_not_done' = NotDoneOf(fs)
            /\ IF EarlyReturn(fs_not_done')
               THEN /\ ret' = [kind |-> "pair", done |-> fs_done',
                               notdone |-> fs_not_done']
                    /\ wpc' = "returned"
                    /\ UNCHANGED <<jobs, monitors>>
               ELSE \* lines 98-102: the job units, a JobMonitor started for each
                    /\ \E keys \in Orderings(PresentJobs(fs)) :
                           jobs' = JobsFrom(fs, keys)
                    /\ monitors' = PresentJobs(fs)
                    /\ wpc' = "loop"
                    /\ UNCHANGED ret
    /\ UNCHANGED <<future, fs, return_when, download_results, throw_except, job_i,
                   npasses>>
    /\ UNCHANGED otherThanWait

\* the condition under which the policy starts a polling pass (lines 105, 115,
\* 124): ALWAYS runs the loop over the jobs once
PassWanted ==
    CASE return_when = ALL_COMPLETED -> ~AllDone(fs)
      [] return_when = ANY_COMPLETED -> ~AnyDone(fs)
      [] OTHER -> npasses = 0

\* the head of the policy's loop
LoopTest ==
    /\ wpc = "loop"
    /\ IF PassWanted
       THEN /\ wpc' = "pass"
            /\ job_i' = 1
       ELSE /\ wpc' = "exit"
            /\ UNCHANGED job_i
    /\ UNCHANGED <<future, fs, return_when, download_results, throw_except,
                   fs_done, fs_not_done, jobs, monitors, npasses, ret>>
    /\ UNCHANGED otherThanWait

\* a faulty variant of FsToWaitOn: every future of the job unit whose status is
\* available is retrieved, whether it satisfies the predicate or not
FsToWaitOnAll(job) ==
    SelectSeq(job.futures, LAMBDA id : future[id].call_status_ready)

\* lines 253-267: the futures of the job unit that do not satisfy the
\* predicate yet and whose status is available
FsToWaitOn(job) ==
    SelectSeq(job.futures,
              LAMBDA id : future[id].call_status_ready /\ ~Pred(id))

\* the lists of a list, one after the other
RECURSIVE Flatten(_)
Flatten(lists) ==
    IF lists = << >> THEN << >> ELSE Head(lists) \o Flatten(Tail(lists))

RECURSIVE SumTo(_, _)
SumTo(c, n) == IF n = 0 THEN 0 ELSE SumTo(c, n - 1) + c[n]

\* f.status(): the status is fetched
FutureStatus(f, ok, kids) ==
    IF ok THEN [f EXCEPT !.ready = TRUE, !.kids = kids, !.fetches = @ + 1]
    ELSE [f EXCEPT !.done = TRUE, !.fetches = @ + 1]

\* f.result(): the result is fetched
FutureResult(f, ok, kids) ==
    IF ok THEN [f EXCEPT !.done = TRUE, !.kids = kids, !.fetches = @ + 1]
    ELSE [f EXCEPT !.done = TRUE, !.fetches = @ + 1]

\* lines 269-280: the retrieval dispatched for one future
Retrieve(f, dl, ok, kids) ==
    IF dl THEN FutureResult(f, ok, kids) ELSE FutureStatus(f, ok, kids)

\* line 290: f.result() is called on each future retrieved that has futures
CheckNewFutures(f) == IF f.kids # << >> THEN FutureResult(f, TRUE, f.kids) ELSE f

\* a faulty variant of ExtendJob: the new futures are not added to the job unit
ExtendJobSkipped(list, new) == list

\* job.futures.extend(futures), for all the new futures of a pass in turn
ExtendJob(list, new) == list \o new

\* a faulty variant of ExtendTracked: the caller's list is replaced by the new futures
ExtendTrackedAsAssign(list, new) == new

\* fs.extend(futures), for all the new futures of a pass in turn
ExtendTracked(list, new) == list \o new

\* job_monitor.is_alive / create().start(), lines 298-300
Restarted(alive, key, grown) == IF grown THEN alive \cup {key} ELSE alive

\* the count of passes tells 0, 1 and more than one apart
Bump(n) == IF n < 2 THEN n + 1 ELSE n

\* _get_job_data for the job unit the pass is at.  W is fs_to_wait_on; ok[i]
\* tells whether the call of W[i] succeeded and c[i] how many child futures its
\* retrieval reveals.
GetJobData ==
    /\ wpc = "pass"
    /\ job_i <= Len(jobs)
    /\ LET job == jobs[job_i]
           W == FsToWaitOn(job)
           base == Len(future)
       IN  \E ok \in [1..Len(W) -> BOOLEAN],
              c \in [1..Len(W) -> 0..(MaxFutures - base)] :
            /\ \A i \in 1..Len(W) : ~ok[i] => c[i] = 0
            /\ \A i \in 1..Len(W) : future[W[i]].kids # << >> => c[i] = 0
            /\ base + SumTo(c, Len(W)) <= MaxFutures
            /\ LET KidsOf(i) == IF future[W[i]].kids # << >>
                                THEN \* the futures it was found to have before
                                     future[W[i]].kids
                                ELSE [j \in 1..c[i] |-> base + SumTo(c, i - 1) + j]
                   IndexIn(id) == CHOOSE i \in 1..Len(W) : W[i] = id
                   InW(id) == \E i \in 1..Len(W) : W[i] = id
                   raises == throw_except /\ \E i \in 1..Len(W) : ~ok[i]
                   fetched == [id \in 1..base |->
                                  IF InW(id) /\ ok[IndexIn(id)]
                                  THEN CheckNewFutures(
                                           Retrieve(future[id], download_results,
                                                    TRUE, KidsOf(IndexIn(id))))
                                  ELSE IF InW(id) /\ ~throw_except
                                  THEN Retrieve(future[id], download_results,
                                                FALSE, << >>)
                                  ELSE future[id]]
                   \* line 290: the futures of each future retrieved that has any
                   new_futures == Flatten([i \in 1..Len(W) |-> fetched[W[i]].kids])
               IN  IF raises
                   THEN \* the first failure is re-raised out of wait: line 290
                        \* is not reached, and the futures found by the
                        \* retrievals that succeeded are in no list
                        /\ future' = [id \in 1..base |->
                                         IF InW(id) /\ ok[IndexIn(id)]
                                         THEN Retrieve(future[id], download_results,
                                                       TRUE, future[id].kids)
                                         ELSE future[id]]
                        /\ wpc' = "raised"
                        /\ UNCHANGED <<fs, jobs, monitors, job_i>>
                   ELSE /\ future' = fetched \o
                              [j \in 1..SumTo(c, Len(W)) |->
                                  NewFuture(ChildJobKey, FALSE, FALSE, FALSE)]
                        \* lines 289-300: check for new futures
                        /\ jobs' = [jobs EXCEPT ![job_i].futures =
                                       ExtendJob(@, new_futures)]
                        /\ fs' = ExtendTracked(fs, new_futures)
                        /\ monitors' = Restarted(monitors, job.job_key,
                                                 new_futures # << >>)
                        /\ job_i' = job_i + 1
                        /\ UNCHANGED wpc
    /\ UNCHANGED <<return_when, download_results, throw_except, fs_done,
                   fs_not_done, npasses, ret>>
    /\ UNCHANGED otherThanWait

\* the loop over the job units is over: time.sleep(WAIT_DUR_SEC) and back to
\* the loop head, or, under ALWAYS, on to the end of wait
PassEnd ==
    /\ wpc = "pass"
    /\ job_i > Len(jobs)
    /\ npasses' = Bump(npasses)
    /\ wpc' = IF return_when = ALWAYS THEN "exit" ELSE "loop"
    /\ UNCHANGED <<future, fs, return_when, download_results, throw_except,
                   fs_done, fs_not_done, jobs, monitors, job_i, ret>>
    /\ UNCHANGED otherThanWait

\* lines 147-162: the final partition is computed and returned
Return ==
    /\ wpc = "exit"
    /\ ret' = Partition(fs)
    /\ wpc' = "returned"
    /\ UNCHANGED <<future, fs, return_when, download_results, throw_except,
                   fs_done, fs_not_done, jobs, monitors, job_i, npasses>>
    /\ UNCHANGED otherThanWait

\* the futures a live JobMonitor watches: those of its job unit
Monitored(id) ==
    \E j \in 1..Len(jobs) :
        /\ jobs[j].job_key \in monitors
        /\ \E i \in 1..Len(jobs[j].futures) : jobs[j].futures[i] = id

\* the job keys whose futures all have their status known
StatusComplete(fut, key) ==
    \A j \in 1..Len(jobs) :
        jobs[j].job_key = key =>
            \A i \in 1..Len(jobs[j].futures) :
                fut[jobs[j].futures[i]].call_status_ready

\* the JobMonitor finds the status of a call in storage; the monitor of a job
\* ends once the status of all the job's calls is known
MonitorStatus(id) ==
    /\ wpc \in {"loop", "pass", "exit"}
    /\ id \in 1..Len(future)
    /\ Monitored(id)
    /\ ~future[id].call_status_ready
    /\ future' = [future EXCEPT ![id].call_status_ready = TRUE]
    /\ monitors' = {k \in monitors : ~StatusComplete(future', k)}
    /\ UNCHANGED <<fs, return_when, download_results, throw_except, fs_done,
                   fs_not_done, jobs, wpc, job_i, npasses, ret>>
    /\ UNCHANGED otherThanWait

\* the states a future can be in when wait is called: its status or result
\* has been retrieved only if its status was known
FutureStates ==
    {f \in [ready : BOOLEAN, done : BOOLEAN, call_status_ready : BOOLEAN] :
        (f.ready \/ f.done) => f.call_status_ready}

\* wait is called with a list of 0 .. MaxRoots distinct futures
WaitInit ==
    /\ AllocIdle
    /\ total_calls = [k \in JobKeys |-> 0]
    /\ chunksize = [k \in JobKeys |-> 1]
    /\ PlanIdle
    /\ FanIdle
    /\ PullIdle
    /\ DeployIdle
    /\ ResultIdle
    /\ TimerIdle
    /\ nrepeats = 0
    /\ \E n \in 0..MaxRoots :
          /\ fs = [i \in 1..n |-> i]
          /\ \E st \in [1..n -> FutureStates], key \in [1..n -> JobKeys] :
                future = [i \in 1..n |->
                             NewFuture(key[i], st[i].call_status_ready,
                                       st[i].ready, st[i].done)]
    /\ return_when \in {ALL_COMPLETED, ANY_COMPLETED, ALWAYS}
    /\ download_results \in BOOLEAN
    /\ throw_except \in BOOLEAN
    /\ fs_done = << >>
    /\ fs_not_done = << >>
    /\ jobs = << >>
    /\ monitors = {}
    /\ wpc = "start"
    /\ job_i = 0
    /\ npasses = 0
    /\ ret = [kind |-> "unset"]

WaitStep ==
    \/ WaitCall
    \/ LoopTest
    \/ GetJobData
    \/ PassEnd
    \/ Return

MonitorStep == \E id \in 1..Len(future) : MonitorStatus(id)

WaitNext == WaitStep \/ MonitorStep

SpecWait == WaitInit /\ [][WaitNext]_vars

\* wait runs on while it can, and a live JobMonitor finds every status
SpecWaitFair ==
    /\ WaitInit
    /\ [][WaitNext]_vars
    /\ WF_vars(WaitStep)
    /\ WF_vars(MonitorStep)

(***************************************************************************)
(* wait called again on the list it has returned from: fs.extend grows the *)
(* caller's list in place, so the next call (by the caller, or by          *)
(* get_result after a wait) is given the futures of the first and the      *)
(* children discovered, in the state the first call left them in.          *)
(***************************************************************************)
WaitAgain ==
    /\ wpc = "returned"
    /\ nrepeats < MaxRepeats
    /\ nrepeats' = nrepeats + 1
    /\ return_when' \in {ALL_COMPLETED, ANY_COMPLETED, ALWAYS}
    /\ download_results' \in BOOLEAN
    /\ fs_done' = << >>
    /\ fs_not_done' = << >>
    /\ jobs' = << >>
    /\ monitors' = {}
    /\ wpc' = "start"
    /\ job_i' = 0
    /\ npasses' = 0
    /\ ret' = [kind |-> "unset"]
    /\ UNCHANGED <<future, fs, throw_except>>
    /\ UNCHANGED otherThanWaitRepeat

RepeatNext ==
    \/ WaitStep
    \/ MonitorStep
    \/ WaitAgain

SpecWaitRepeat == WaitInit /\ [][RepeatNext]_vars

(***************************************************************************)
(* wait with its timeout timer.  The entry and the exit of wait are        *)
(* followed statement by statement: the timer is armed at line 85, the     *)
(* progress bar is set up at lines 87-95, and the try statement whose      *)
(* finally disarms the timer starts at line 97.  A KeyboardInterrupt can   *)
(* arrive between any two statements; SIGALRM runs timeout_handler, which  *)
(* raises the timeout failure (lithops.utils, outside these files) at the  *)
(* statement being executed.  An exception raised inside the try statement *)
(* is pending until the finally clause has run.                            *)
(***************************************************************************)
\* lines 58-79: the empty list, the partition on entry and the early return
TimerEntry ==
    /\ wpc = "start"
    /\ IF fs = << >>
       THEN /\ ret' = [kind |-> "none"]
            /\ wpc' = "returned"
            /\ outcome' = "returned"
            /\ UNCHANGED <<fs_done, fs_not_done>>
       ELSE /\ fs_done' = DoneOf(fs)
            /\ fs_not_done' = NotDoneOf(fs)
            /\ IF EarlyReturn(fs_not_done')
               THEN /\ ret' = [kind |-> "pair", done |-> fs_done',
                               notdone |-> fs_not_done']
                    /\ wpc' = "returned"
                    /\ outcome' = "returned"
               ELSE /\ wpc' = "arm"
                    /\ UNCHANGED <<ret, outcome>>
    /\ UNCHANGED <<future, fs, return_when, download_results, throw_except, jobs,
                   monitors, job_i, npasses>>
    /\ UNCHANGED <<is_unix, timeout, alarm>>
    /\ UNCHANGED otherThanWaitTimer

\* lines 81-85: signal.alarm(timeout)
TimerArm ==
    /\ wpc = "arm"
    /\ alarm' = IF is_unix /\ timeout THEN "armed" ELSE alarm
    /\ wpc' = "pbar"
    /\ UNCHANGED <<future, fs, return_when, download_results, throw_except,
                   fs_done, fs_not_done, jobs, monitors, job_i, npasses, ret>>
    /\ UNCHANGED <<is_unix, timeout, outcome>>
    /\ UNCHANGED otherThanWaitTimer

\* lines 87-95: the progress bar is set up
TimerPbar ==
    /\ wpc = "pbar"
    /\ wpc' = "try"
    /\ UNCHANGED <<future, fs, return_when, download_results, throw_except,
                   fs_done, fs_not_done, jobs, monitors, job_i, npasses, ret>>
    /\ UNCHANGED timerVars
    /\ UNCHANGED otherThanWaitTimer

\* lines 97-102: inside the try, the job units and a JobMonitor for each
TimerTry ==
    /\ wpc = "try"
    /\ \E keys \in Orderings(PresentJobs(fs)) : jobs' = JobsFrom(fs, keys)
    /\ monitors' = PresentJobs(fs)
    /\ wpc' = "loop"
    /\ UNCHANGED <<future, fs, return_when, download_results, throw_except,
                   fs_done, fs_not_done, job_i, npasses, ret>>
    /\ UNCHANGED timerVars
    /\ UNCHANGED otherThanWaitTimer

\* a KeyboardInterrupt arrives after the timer was armed and before the try
\* statement is entered: it leaves wait at once
InterruptBeforeTry ==
    /\ wpc = "pbar"
    /\ wpc' = "left"
    /\ outcome' = "interrupted"
    /\ UNCHANGED <<future, fs, return_when, download_results, throw_except,
                   fs_done, fs_not_done, jobs, monitors, job_i, npasses, ret>>
    /\ UNCHANGED <<is_unix, timeout, alarm>>
    /\ UNCHANGED otherThanWaitTimer

\* lines 132-142: a KeyboardInterrupt arrives inside the try statement, is
\* caught and raised again
InterruptInTry ==
    /\ wpc \in {"try", "loop", "pass"}
    /\ wpc' = "interrupted"
    /\ UNCHANGED <<future, fs, return_when, download_results, throw_except,
                   fs_done, fs_not_done, jobs, monitors, job_i, npasses, ret>>
    /\ UNCHANGED timerVars
    /\ UNCHANGED otherThanWaitTimer

\* the timer elapses: timeout_handler raises the timeout failure, before the
\* try statement or inside it
TimerFires ==
    /\ alarm = "armed"
    /\ wpc \in {"pbar", "try", "loop", "pass"}
    /\ alarm' = "fired"
    /\ IF wpc = "pbar"
       THEN /\ wpc' = "left"
            /\ outcome' = "timeout"
       ELSE /\ wpc' = "timedout"
            /\ UNCHANGED outcome
    /\ UNCHANGED <<future, fs, return_when, download_results, throw_except,
                   fs_done, fs_not_done, jobs, monitors, job_i, npasses, ret>>
    /\ UNCHANGED <<is_unix, timeout>>
    /\ UNCHANGED otherThanWaitTimer

\* signal.alarm(0), when is_unix_system()
Disarmed(unix, a) == IF unix THEN "off" ELSE a

\* lines 147-153: the finally clause, after the loop or with an exception
\* pending, which then leaves wait
TimerFinally ==
    /\ wpc \in {"exit", "raised", "interrupted", "timedout"}
    /\ alarm' = Disarmed(is_unix, alarm)
    /\ IF wpc = "exit"
       THEN /\ wpc' = "final"
            /\ UNCHANGED outcome
       ELSE /\ wpc' = "left"
            /\ outcome' = CASE wpc = "raised" -> "raised"
                             [] wpc = "interrupted" -> "interrupted"
                             [] OTHER -> "timeout"
    /\ UNCHANGED <<future, fs, return_when, download_results, throw_except,
                   fs_done, fs_not_done, jobs, monitors, job_i, npasses, ret>>
    /\ UNCHANGED <<is_unix, timeout>>
    /\ UNCHANGED otherThanWaitTimer

\* lines 155-162: the final partition is computed and returned
TimerReturn ==
    /\ wpc = "final"
    /\ ret' = Partition(fs)
    /\ wpc' = "returned"
    /\ outcome' = "returned"
    /\ UNCHANGED <<future, fs, return_when, download_results, throw_except,
                   fs_done, fs_not_done, jobs, monitors, job_i, npasses>>
    /\ UNCHANGED <<is_unix, timeout, alarm>>
    /\ UNCHANGED otherThanWaitTimer

\* wait is called, with or without a timeout, on a unix-like system or not
TimerInit ==
    /\ AllocIdle
    /\ total_calls = [k \in JobKeys |-> 0]
    /\ chunksize = [k \in JobKeys |-> 1]
    /\ PlanIdle
    /\ FanIdle
    /\ PullIdle
    /\ DeployIdle
    /\ ResultIdle
    /\ \E n \in 0..MaxRoots :
          /\ fs = [i \in 1..n |-> i]
          /\ \E st \in [1..n -> FutureStates], key \in [1..n -> JobKeys] :
                future = [i \in 1..n |->
                             NewFuture(key[i], st[i].call_status_ready,
                                       st[i].ready, st[i].done)]
    /\ return_when \in {ALL_COMPLETED, ANY_COMPLETED, ALWAYS}
    /\ download_results \in BOOLEAN
    /\ throw_except \in BOOLEAN
    /\ fs_done = << >>
    /\ fs_not_done = << >>
    /\ jobs = << >>
    /\ monitors = {}
    /\ wpc = "start"
    /\ job_i = 0
    /\ npasses = 0
    /\ ret = [kind |-> "unset"]
    /\ is_unix \in BOOLEAN
    /\ timeout \in BOOLEAN
    /\ alarm = "off"
    /\ outcome = "running"
    /\ nrepeats = 0

TimerNext ==
    \/ TimerEntry
    \/ TimerArm
    \/ TimerPbar
    \/ TimerTry
    \/ LoopTest
    \/ GetJobData
    \/ PassEnd
    \/ InterruptBeforeTry
    \/ InterruptInTry
    \/ TimerFires
    \/ TimerFinally
    \/ TimerReturn
    \/ MonitorStep

SpecWaitTimer == TimerInit /\ [][TimerNext]_vars

(***************************************************************************)
(* get_result: wait with download_results=True under the default policy,   *)
(* then the results of the done futures that carry no futures and produce  *)
(* output.  The result of a call is modelled by the id of its future.      *)
(***************************************************************************)
\* f.result() of a future whose result was retrieved
ResultOf(id) == id

\* lines 187-190: the results of the futures of fs_done that have no futures
\* and produce output, in the order of fs_done
Collected(done) ==
    LET kept == SelectSeq(done, LAMBDA id : future[id].kids = << >>
                                          /\ produce_output[id])
    IN  [i \in 1..Len(kept) |-> ResultOf(kept[i])]

\* lines 182-194: wait has returned; fs_done, _ = wait(...) raises a TypeError
\* when wait returned None
GetResultCollect ==
    /\ gpc = "waiting"
    /\ wpc = "returned"
    /\ IF ret.kind = "pair"
       THEN /\ result' = Collected(ret.done)
            /\ gpc' = "returned"
       ELSE /\ gpc' = "raised"
            /\ UNCHANGED result
    /\ UNCHANGED produce_output
    /\ UNCHANGED otherThanResult

\* the exception of wait leaves get_result
GetResultRaises ==
    /\ gpc = "waiting"
    /\ wpc = "raised"
    /\ gpc' = "raised"
    /\ UNCHANGED <<produce_output, result>>
    /\ UNCHANGED otherThanResult

\* get_result is called with a list of 0 .. MaxRoots distinct futures
GetResultInit ==
    /\ AllocIdle
    /\ total_calls = [k \in JobKeys |-> 0]
    /\ chunksize = [k \in JobKeys |-> 1]
    /\ PlanIdle
    /\ FanIdle
    /\ PullIdle
    /\ DeployIdle
    /\ TimerIdle
    /\ nrepeats = 0
    /\ \E n \in 0..MaxRoots :
          /\ fs = [i \in 1..n |-> i]
          /\ \E st \in [1..n -> FutureStates], key \in [1..n -> JobKeys] :
                future = [i \in 1..n |->
                             NewFuture(key[i], st[i].call_status_ready,
                                       st[i].ready, st[i].done)]
    /\ return_when = ALL_COMPLETED
    /\ download_results = TRUE
    /\ throw_except \in BOOLEAN
    /\ fs_done = << >>
    /\ fs_not_done = << >>
    /\ jobs = << >>
    /\ monitors = {}
    /\ wpc = "start"
    /\ job_i = 0
    /\ npasses = 0
    /\ ret = [kind |-> "unset"]
    /\ produce_output \in [1..MaxFutures -> BOOLEAN]
    /\ result = << >>
    /\ gpc = "waiting"

GetResultNext ==
    \/ WaitStep
    \/ MonitorStep
    \/ GetResultCollect
    \/ GetResultRaises

SpecGetResult == GetResultInit /\ [][GetResultNext]_vars

(***************************************************************************)
(* Properties of the range allocator.                                      *)
(***************************************************************************)
IsRange(text) == text # Sentinel

\* the call indices of a response: those of [start, end), none for the sentinel
IndicesOf(text) ==
    IF IsRange(text) THEN ParseRange(text)[1]..(ParseRange(text)[2] - 1) ELSE {}

\* the texts returned for job key k, in the order they were returned
TextsOf(k) ==
    LET R == SelectSeq(responses, LAMBDA r : r.key = k)
    IN  [i \in 1..Len(R) |-> R[i].text]

\* C1: no two requests for the same job key receive ranges that share a call
\* index, whatever the interleaving of the handlers' reads and writes.
C1_NoOverlap ==
    \A i, j \in 1..Len(responses) :
        (i < j /\ responses[i].key = responses[j].key
               /\ total_calls[responses[i].key] > 0)
            => IndicesOf(responses[i].text) \cap IndicesOf(responses[j].text) = {}

\* where the i-th response for a key must start: at 0, or at the end of the
\* range before it
PrevEnd(R, i) == IF i = 1 THEN 0 ELSE ParseRange(R[i - 1])[2]

\* C2: handled one at a time, the responses for a job key are contiguous
\* non-empty ranges of at most chunksize calls starting at 0, the sentinel comes
\* exactly when the ranges before it end at total_calls, and the ranges are
\* then pairwise disjoint with union [0, total_calls).
C2_SequentialPartition ==
    \A k \in JobKeys :
        LET R == TextsOf(k)
            firstSentinel == IF \E i \in 1..Len(R) : R[i] = Sentinel
                             THEN CHOOSE i \in 1..Len(R) :
                                      /\ R[i] = Sentinel
                                      /\ \A j \in 1..(i - 1) : R[j] # Sentinel
                             ELSE Len(R) + 1
        IN  /\ \A i \in 1..Len(R) :
                  i < firstSentinel =>
                      LET s == ParseRange(R[i])[1]
                          e == ParseRange(R[i])[2]
                      IN  /\ s = PrevEnd(R, i)
                          /\ s < e
                          /\ e - s <= chunksize[k]
                          /\ e <= total_calls[k]
            /\ firstSentinel <= Len(R) =>
                  /\ PrevEnd(R, firstSentinel) = total_calls[k]
                  /\ UNION {IndicesOf(R[i]) : i \in 1..Len(R)}
                         = 0..(total_calls[k] - 1)
                  /\ \A i, j \in 1..Len(R) :
                         i < j => IndicesOf(R[i]) \cap IndicesOf(R[j]) = {}
            /\ \A i \in 1..Len(R) : i > firstSentinel => R[i] = Sentinel

\* the example of the specification: total_calls = 10 and chunksize = 3 give
\* 0-3, 3-6, 6-9, 9-10 and then the sentinel
C2_Witness ==
    /\ total_calls["jobA"] = 10
    /\ chunksize["jobA"] = 3
    /\ TextsOf("jobA") = << <<"0", "-", "3">>, <<"3", "-", "6">>, <<"6", "-", "9">>,
                           <<"9", "-", "1", "0">>, <<"-", "1">> >>

\* C3: a request that arrives once the cursor of its job key stands at
\* total_calls (for total_calls = 0, the very first request) is answered with the
\* sentinel, never a range, and writes total_calls back as the cursor.
C3_SentinelOnceExhausted ==
    /\ \A i \in 1..Len(responses) :
           responses[i].exh => responses[i].text = Sentinel
    /\ \A h \in Handlers :
           (hexh[h] /\ hpc[h] = "reply") =>
               /\ hend[h] = total_calls[hkey[h]]
               /\ hstart[h] = total_calls[hkey[h]]

\* the same statement holds when the requests are handled one at a time
\* (checked under SpecSeq), where it is reached by
SerialExhaustedReached ==
    \E i \in 1..Len(responses) :
        /\ responses[i].exh
        /\ total_calls[responses[i].key] > 0

\* C20: for every job key requested with total_calls > 0 and chunksize > 0 the
\* stored cursor never decreases and never exceeds total_calls, whatever the
\* sequence and interleaving of the requests.
C20_CursorMonotone ==
    [][\A k \in JobKeys :
          total_calls[k] > 0 =>
              /\ Cursor(k)' >= Cursor(k)
              /\ Cursor(k)' <= total_calls[k]]_vars

(***************************************************************************)
(* Properties of the partition planner.                                    *)
(***************************************************************************)
RECURSIVE SumExecutions(_, _)
SumExecutions(sh, n) == IF n = 0 THEN 0 ELSE SumExecutions(sh, n - 1) + sh[n][1]

\* C4: over a cluster whose CPU ranges are contiguous, disjoint and cover
\* 0 .. num_cpus_cluster - 1, the pod_executions of all pods sum to exactly the
\* total number of calls.
C4_PartitionConservation ==
    (ValidCluster(cluster_cpus, cluster_pods) /\ Len(shares) = Len(cluster_pods))
        => SumExecutions(shares, Len(shares)) = total_functions

\* all pods of a cluster of several pods are planned, with the remainder equal
\* to the first CPU index of one pod and so one past the last index of another
C4_Witness ==
    /\ ValidCluster(cluster_cpus, cluster_pods)
    /\ Len(cluster_pods) >= 2
    /\ Len(shares) = Len(cluster_pods)
    /\ total_functions > cluster_cpus
    /\ \E i \in 1..Len(cluster_pods) :
           /\ total_functions % cluster_cpus = cluster_pods[i][1]
           /\ i > 1
           /\ cluster_pods[i][1] < cluster_pods[i][2]

(***************************************************************************)
(* Properties of the fan-out scheduler.                                    *)
(***************************************************************************)
\* the processes started that are still executing their call; a process that
\* is between the read and the write of its decrement is not counted
InFlight == {w \in 1..Len(workers) : workers[w].state = "run"}

\* C10: while a pod handles a job message, the worker processes launched and
\* not yet finished never number more than the pod's CPUs.
C10_InFlightBounded ==
    spc \notin {"listening"} => Cardinality(InFlight) <= range_end - range_start + 1

\* the planner's share of the pod for the message it handles
PodExecutions ==
    CalculateExecutions(num_cpus_cluster, range_end - range_start + 1,
                        <<range_start, range_end>>, msg_total_calls)[1]

Handled == spc = "done"

\* C16: every process started finishing its call and decrementing the
\* counter, the handling of a job message by a pod terminates, having started
\* exactly pod_executions processes; the refill never waits forever for a
\* free slot, whatever the interleaving of increments and decrements.
C16_Terminates ==
    /\ (spc # "listening") ~> Handled
    /\ [](Handled /\ msg_total_calls > range_start
              => Len(workers) = PodExecutions)
    /\ [](Handled /\ msg_total_calls <= range_start => workers = << >>)

\* a message needing the refill was handled to the end by a pod of several
\* CPUs, and every process has finished
C16_Witness ==
    /\ Handled
    /\ range_end > range_start
    /\ Len(workers) > range_end - range_start + 1
    /\ \A w \in 1..Len(workers) : workers[w].state = "finished"

\* the for loop of the first wave is over
FirstWaveOver ==
    \/ spc \in {"refill", "refill_read", "refill_write", "done"}
    \/ spc = "first_wave" /\ loop_i >= num_processes

\* the indices of the pod's CPU range that are below total_calls
Addressable == {i \in range_start..range_end : i < msg_total_calls}

\* C17: for total_calls > range_start the first wave starts
\* min(requested_cpus, pod_cpus) processes, requested_cpus being the number
\* of indices of the pod's range below total_calls, for the indices
\* range_start .. range_start + that number - 1, all below total_calls.
C17_FirstWave ==
    (FirstWaveOver /\ msg_total_calls > range_start) =>
        LET n == Min(Cardinality(Addressable), range_end - range_start + 1)
        IN  /\ loop_i = n
            /\ Len(workers) >= n
            /\ \A i \in 1..n :
                   /\ workers[i].job_index = range_start + i - 1
                   /\ workers[i].job_index < msg_total_calls
            /\ \A i \in 1..Len(workers) :
                   i > n => workers[i].job_index > range_end

\* the first wave of a pod whose range reaches past total_calls is over
C17_Witness ==
    /\ FirstWaveOver
    /\ msg_total_calls > range_start
    /\ range_end > msg_total_calls - 1
    /\ Len(workers) >= 2

\* the job indices passed to processes by the pods so far
AllLaunched == launched \o JobIndexes(workers)

AllPodsDone == pod_i > Len(cluster_pods)

\* C15: one job message delivered to every pod of a cluster whose CPU ranges
\* are contiguous, disjoint and cover 0 .. num_cpus_cluster - 1, and every
\* process finishing: no index is passed to a process twice, none is
\* >= total_calls, a pod with total_calls <= range_start starts nothing, and
\* the indices passed by all pods together are exactly 0 .. total_calls - 1.
C15_ExactCover ==
    ValidCluster(cluster_cpus, cluster_pods) =>
        /\ \A i, j \in 1..Len(AllLaunched) :
               i < j => AllLaunched[i] # AllLaunched[j]
        /\ \A i \in 1..Len(AllLaunched) : AllLaunched[i] < job_msg
        /\ (~AllPodsDone /\ job_msg <= range_start) => workers = << >>
        /\ AllPodsDone =>
               /\ Len(AllLaunched) = job_msg
               /\ {AllLaunched[i] : i \in 1..Len(AllLaunched)} = 0..(job_msg - 1)

\* all pods of a cluster of several pods have handled a message of more
\* calls than the cluster has CPUs, not a multiple of that number
C15_Witness ==
    /\ AllPodsDone
    /\ Len(cluster_pods) >= 2
    /\ job_msg > cluster_cpus
    /\ job_msg % cluster_cpus # 0
    /\ Len(launched) = job_msg

\* C19: no exception raised while a pod handles a message leaves the message
\* handler: the handler returns, the message, acknowledged on receipt, is not
\* delivered again, and the consumer stays subscribed for the next message.
C19_ExceptionsSwallowed ==
    /\ listener = "subscribed"
    /\ spc # "raised"

(***************************************************************************)
(* Properties of the wait engine.                                          *)
(***************************************************************************)
Tracked == {fs[i] : i \in 1..Len(fs)}

Elements(list) == {list[i] : i \in 1..Len(list)}

\* C5: under ALL_COMPLETED, when wait returns normally every tracked future,
\* discovered children included, satisfies the readiness predicate, and the
\* not-done part of the pair returned is empty.
C5_AllCompleted ==
    (return_when = ALL_COMPLETED /\ wpc = "returned") =>
        /\ \A id \in Tracked : Pred(id)
        /\ \A id \in Tracked : Elements(future[id].kids) \subseteq Tracked
        /\ ret.kind = "pair" => ret.notdone = << >>

\* the wait returned after polling, with a discovered child among the futures
C5_Witness ==
    /\ return_when = ALL_COMPLETED
    /\ wpc = "returned"
    /\ npasses >= 1
    /\ \E id \in Tracked : future[id].job_key = ChildJobKey

\* C6 as stated: under ALWAYS every call of wait with a non-empty list makes
\* exactly one polling pass before it returns, whatever the futures' state.
C6_OnePassAlways ==
    (return_when = ALWAYS /\ wpc = "returned" /\ fs # << >>) => npasses = 1

\* C6 amended: under ALWAYS a call with a non-empty list makes exactly one
\* polling pass, over each job unit, before it returns when some future does
\* not satisfy the predicate on entry, and none when all of them do.
C6_OnePassUnlessAllReady ==
    (return_when = ALWAYS /\ wpc = "returned" /\ fs # << >>) =>
        IF fs_not_done # << >>
        THEN npasses = 1 /\ job_i = Len(jobs) + 1
        ELSE npasses = 0 /\ \A id \in Tracked : future[id].fetches = 0

\* an ALWAYS wait returned after its pass, entered with some futures
\* satisfying the predicate and some not
C6_Witness ==
    /\ return_when = ALWAYS
    /\ wpc = "returned"
    /\ fs_done # << >>
    /\ fs_not_done # << >>
    /\ npasses = 1

Increasing(list) == \A i, j \in 1..Len(list) : i < j => list[i] < list[j]

\* the first part of C7: entered with some but not all futures satisfying
\* the predicate, wait returns without a polling pass or a fetch, with the
\* partition of the entry, in input order
C7_Immediate ==
    (fs_done # << >> /\ fs_not_done # << >>) =>
        /\ npasses = 0
        /\ \A id \in 1..Len(future) : future[id].fetches = 0
        /\ ret = [kind |-> "pair", done |-> fs_done, notdone |-> fs_not_done]
        /\ Increasing(ret.done) /\ Increasing(ret.notdone)
        /\ Elements(ret.done) = {id \in Tracked : Pred(id)}
        /\ Elements(ret.notdone) = {id \in Tracked : ~Pred(id)}

\* C7 as stated: under ANY_COMPLETED, entered with some but not all futures
\* satisfying the predicate, wait returns at once with the partition of the
\* entry; and it returns normally only when some tracked future satisfies
\* the predicate.
C7_AnyCompletedOriginal ==
    (return_when = ANY_COMPLETED /\ wpc = "returned") =>
        /\ C7_Immediate
        /\ \E id \in Tracked : Pred(id)

\* C7 amended: the same, the second part for a non-empty list of futures.
C7_AnyCompleted ==
    (return_when = ANY_COMPLETED /\ wpc = "returned") =>
        /\ C7_Immediate
        /\ fs # << >> => \E id \in Tracked : Pred(id)

\* an ANY_COMPLETED wait entered with the first future satisfying the
\* predicate and the second not has returned
C7_Witness ==
    /\ return_when = ANY_COMPLETED
    /\ wpc = "returned"
    /\ fs_done = <<1>>
    /\ fs_not_done = <<2>>

\* the child futures a step reveals
KidsBefore == UNION {Elements(future[id].kids) : id \in 1..Len(future)}
KidsAfter == UNION {Elements(future'[id].kids) : id \in 1..Len(future')}

\* the first part of C8: a call of _get_job_data that reveals N child futures
\* appends these N to the job unit's list and to the caller's list
GrowthStep ==
    (wpc = "pass" /\ wpc' = "pass" /\ job_i' = job_i + 1) =>
        LET N == Cardinality(KidsAfter \ KidsBefore)
            old == jobs[job_i].futures
            new == jobs'[job_i].futures
        IN  /\ Len(fs') = Len(fs) + N
            /\ SubSeq(fs', 1, Len(fs)) = fs
            /\ Elements(SubSeq(fs', Len(fs) + 1, Len(fs'))) = KidsAfter \ KidsBefore
            /\ Len(new) = Len(old) + N
            /\ SubSeq(new, 1, Len(old)) = old
            /\ SubSeq(new, Len(old) + 1, Len(new)) = SubSeq(fs', Len(fs) + 1, Len(fs'))

\* the second part of C8: under ALL_COMPLETED wait does not return before the
\* children revealed satisfy the predicate too
ChildrenAwaited ==
    (return_when = ALL_COMPLETED /\ wpc = "returned") =>
        \A id \in KidsBefore : id \in Tracked /\ Pred(id)

AllInDone ==
    /\ wpc = "returned"
    /\ ret.kind = "pair" => (Elements(ret.done) = Tracked /\ KidsBefore \subseteq Tracked)

\* C8 as stated: growth by exactly N in both lists, no return under
\* ALL_COMPLETED before the children satisfy the predicate, and, every status
\* becoming available, the wait eventually returns with all of them in done.
C8_GrowthOriginal ==
    /\ [][GrowthStep]_vars
    /\ []ChildrenAwaited
    /\ (return_when = ALL_COMPLETED) ~> AllInDone

\* C8 amended: the same, where the wait eventually returns with all of them
\* in done or ends by raising the failure of a retrieved call.
C8_Growth ==
    /\ [][GrowthStep]_vars
    /\ []ChildrenAwaited
    /\ (return_when = ALL_COMPLETED) ~> (AllInDone \/ wpc = "raised")

\* an ALL_COMPLETED wait has returned with two children of one future, both
\* in done
C8_Witness ==
    /\ return_when = ALL_COMPLETED
    /\ wpc = "returned"
    /\ \E id \in Tracked :
           /\ Len(future[id].kids) = 2
           /\ Elements(future[id].kids) \subseteq Elements(ret.done)

\* C9: under ALL_COMPLETED no step of the wait removes a future from the
\* tracked list or makes a future that satisfied the predicate stop
\* satisfying it.
C9_Monotone ==
    [][return_when = ALL_COMPLETED =>
          /\ Len(fs') >= Len(fs)
          /\ SubSeq(fs', 1, Len(fs)) = fs
          /\ \A id \in Tracked :
                 Pred(id) => Satisfies(future'[id], download_results')]_vars

\* after a pass of an ALL_COMPLETED wait that revealed a child, some tracked
\* futures satisfy the predicate and some do not yet
C9_Witness ==
    /\ return_when = ALL_COMPLETED
    /\ npasses >= 1
    /\ wpc = "pass"
    /\ \E id \in Tracked : Pred(id) /\ future[id].kids # << >>
    /\ \E id \in Tracked : ~Pred(id)

(***************************************************************************)
(* Properties of the pull workers.                                         *)
(***************************************************************************)
PullFinished == \A w \in PullWorkers : wkpc[w] \in {"off", "finished"}

Consumed == UNION {executed[i].ids : i \in 1..Len(executed)}

\* C11: once every pull worker of a job has received the sentinel and left
\* its loop, every call index of 0 .. total_calls - 1 has been handed to
\* function_handler by some worker, range requests failing in transport
\* (before or after the master handled them) and being retried.
C11_AllConsumed ==
    PullFinished => Consumed = 0..(total_calls[PullJob] - 1)

\* C18: any two ranges a worker hands to function_handler in different
\* iterations of its loop run under different activation ids.
C18_FreshActivation ==
    \A i, j \in 1..Len(executed) :
        (i < j /\ executed[i].worker = executed[j].worker)
            => executed[i].act # executed[j].act

(***************************************************************************)
(* Properties of the value returned by wait and of get_result.             *)
(***************************************************************************)
\* C13: whenever wait returns normally, for any list of futures, the empty
\* list and a list of futures that all satisfy the predicate included, it
\* returns a pair whose done part is exactly the tracked futures satisfying the
\* readiness predicate and whose not-done part is exactly those that do not:
\* every tracked future, discovered children included, is in exactly one.
C13_PairAlways ==
    wpc = "returned" =>
        /\ ret.kind = "pair"
        /\ ret.done = DoneOf(fs)
        /\ ret.notdone = NotDoneOf(fs)
        /\ Elements(ret.done) \cup Elements(ret.notdone) = Tracked
        /\ Elements(ret.done) \cap Elements(ret.notdone) = {}
        /\ KidsBefore \subseteq Tracked

\* what C14 has get_result return: one result per tracked future that is
\* done, produces output and carries no futures, in the order of the list
Expected ==
    LET kept == SelectSeq(fs, LAMBDA id : /\ future[id].done
                                        /\ produce_output[id]
                                        /\ future[id].kids = << >>)
    IN  [i \in 1..Len(kept) |-> ResultOf(kept[i])]

\* C14: get_result waits with download_results=True under ALL_COMPLETED and,
\* the wait having returned, returns one result per tracked future that is
\* done, produced output and carries no futures, in the order of the tracked
\* list: the futures given, then the children in the order discovered.
C14_GetResult ==
    /\ gpc # "idle" => (download_results /\ return_when = ALL_COMPLETED)
    /\ (wpc = "returned" /\ gpc # "waiting") =>
           /\ gpc = "returned"
           /\ result = Expected
           /\ Increasing(result)

(***************************************************************************)
(* Properties of the timeout timer of wait.                                *)
(***************************************************************************)
\* C12: on a unix-like system, on every path by which wait exits after arming
\* its timer (normal return, retrieval exception, the timeout failure, an
\* interrupt) the timer is disarmed before control is back with the caller:
\* no armed timer of a wait call survives the call.
C12_TimerDisarmed ==
    (is_unix /\ outcome # "running") => alarm # "armed"

(***************************************************************************)
(* Properties of the retrievals of wait.                                   *)
(***************************************************************************)
NoDuplicates(list) == \A i, j \in 1..Len(list) : i # j => list[i] # list[j]

\* the futures whose retrieval a step dispatches
Dispatched == {id \in 1..Len(future) : future'[id].fetches > future[id].fetches}

\* a future is dispatched only if it does not satisfy the predicate and its
\* status is available, and it satisfies the predicate afterwards
DispatchStep ==
    \A id \in Dispatched :
        /\ ~Pred(id)
        /\ future[id].call_status_ready
        /\ Satisfies(future'[id], download_results')

\* within a call, a future that satisfies the predicate goes on satisfying it,
\* so it satisfied it at no earlier point of the pass and is dispatched in no
\* later pass
StaysSatisfied ==
    wpc' # "start" =>
        \A id \in 1..Len(future) :
            Pred(id) => Satisfies(future'[id], download_results')

\* a future that has futures has had its result fetched
ParentsDone == \A id \in 1..Len(future) : future[id].kids # << >> => future[id].done

\* the children of a future are in the tracked list, once each
ChildrenOnce ==
    \A id \in Tracked :
        \A k \in 1..Len(future[id].kids) :
            wpc \in {"loop", "exit", "returned"} =>
                Cardinality({i \in 1..Len(fs) : fs[i] = future[id].kids[k]}) = 1

\* C21: in a call of wait on a list without duplicates, a future is
\* dispatched for retrieval in a pass only if it did not satisfy the
\* predicate at the start of the pass and its status is available; it is so
\* retrieved in at most one pass, after which it satisfies the predicate; the
\* children of a future are appended at most once, and the tracked list
\* never holds a future twice.
C21_RetrievedOnce ==
    /\ [][DispatchStep]_vars
    /\ [][StaysSatisfied]_vars
    /\ [](NoDuplicates(fs) /\ ParentsDone /\ ChildrenOnce)
    /\ [](\A j \in 1..Len(jobs) : NoDuplicates(jobs[j].futures))

\* a second call, downloading results, has made a pass over a list that the
\* first call, fetching statuses only, left with a parent and its child
C21_Witness ==
    /\ nrepeats = 1
    /\ download_results
    /\ npasses >= 1
    /\ \E id \in Tracked :
           /\ future[id].kids # << >>
           /\ future[id].ready
           /\ \E k \in 1..Len(future[id].kids) :
                  future[future[id].kids[k]].fetches >= 1

=============================================================================
